---- MODULE Spec2Model ----
(***************************************************************************)
(* Donation / payment-confirmation workflow of the band portal backend.    *)
(*                                                                         *)
(*   routes/public.js    POST /api/donate, POST /api/webhook/mtn           *)
(*   utils/mtn.js        createMtnPaymentRequest, verifyMtnWebhook         *)
(*   routes/admin.js     PUT /api/admin/donations/:id/status               *)
(*   routes/donations.js POST /api/donations                               *)
(*   middleware/auth.js  requireAdmin                                      *)
(*   server.js           the mounts of the routers                         *)
(*   routes/events.js    subscriptions, events, the notification fan-out   *)
(*                                                                         *)
(* The relational store is the only shared state.  A handler that awaits   *)
(* a query is split at the await: the part before it runs when the request *)
(* arrives, the query and the handler's continuation run when the store    *)
(* executes the statement.  Requests between the two are "in flight".      *)
(***************************************************************************)
EXTENDS Bags, FiniteSets, Integers, Sequences, TLC

(***************************************************************************)
(* Bounds of the model.                                                    *)
(***************************************************************************)
MaxTime == 1        \* Date.now() takes the values 0..MaxTime
MaxRand == 1        \* Math.random() suffixes take the values 0..MaxRand
MaxDonations == 2   \* rows of the donations table
MaxInflight == 2    \* webhook deliveries awaiting their UPDATE
MaxEvents == 1      \* rows inserted into the events table
MaxStreak == 2      \* confirmed updates of one event answered in a row
MaxFiles == 3       \* req.files.length of an upload
MaxAdmins == 2      \* rows of the admin table
MaxRegistering == 2 \* registrations between their SELECT and their INSERT

(***************************************************************************)
(* JavaScript values of request bodies: <<type, value>>.  A string is a    *)
(* sequence of characters (or of opaque tokens where only equality and     *)
(* emptiness matter).                                                      *)
(***************************************************************************)
Undef == <<"undefined", <<>>>>
Str(s) == <<"string", s>>
Num(n) == <<"number", n>>

IsStr(v) == v[1] = "string"

\* JS truthiness: undefined, '' and 0 are falsy.
Truthy(v) ==
  CASE v[1] = "undefined" -> FALSE
    [] v[1] = "string" -> v[2] # <<>>
    [] v[1] = "number" -> v[2] # 0

\* JS a || b
Or(a, b) == IF Truthy(a) THEN a ELSE b

Digit == <<"0", "1", "2", "3", "4", "5", "6", "7", "8", "9">>

RECURSIVE NatToStr(_)
NatToStr(n) ==
  IF n < 10 THEN <<Digit[n + 1]>>
  ELSE NatToStr(n \div 10) \o <<Digit[(n % 10) + 1]>>

\* String(n) for an integer n
NumToStr(n) == IF n < 0 THEN <<"-">> \o NatToStr(0 - n) ELSE NatToStr(n)

\* value.toString() / express-validator's toString(): undefined becomes ''.
ToStr(v) ==
  CASE v[1] = "undefined" -> <<>>
    [] v[1] = "string" -> v[2]
    [] v[1] = "number" -> NumToStr(v[2])

IsDigit(c) == \E i \in 1..10 : Digit[i] = c

DigitVal(c) == (CHOOSE i \in 1..10 : Digit[i] = c) - 1

RECURSIVE DigitsVal(_)
DigitsVal(s) ==
  IF s = <<>> THEN 0
  ELSE 10 * DigitsVal(SubSeq(s, 1, Len(s) - 1)) + DigitVal(s[Len(s)])

HasSign(s) == s # <<>> /\ s[1] \in {"-", "+"}

Unsigned(s) == IF HasSign(s) THEN Tail(s) ELSE s

\* validator.js float pattern on strings without '.', 'e': [-+]?[0-9]*
MatchesFloat(s) == \A i \in 1..Len(Unsigned(s)) : IsDigit(Unsigned(s)[i])

\* parseFloat on a string that matches the pattern
ParseFloat(s) ==
  IF s # <<>> /\ s[1] = "-" THEN 0 - DigitsVal(Unsigned(s))
  ELSE DigitsVal(Unsigned(s))

\* validator.isFloat(str, {gt: 0})
IsFloatGt0(s) ==
  /\ s \notin {<<>>, <<".">>, <<",">>, <<"-">>, <<"+">>}
  /\ MatchesFloat(s)
  /\ ParseFloat(s) > 0

(***************************************************************************)
(* POST /api/donate: the express-validator chains.  Every failing          *)
(* validator of a chain adds one error carrying the field's path.          *)
(***************************************************************************)
ValidationError(path) == [path |-> path, msg |-> "Invalid value"]

\* errors of one chain: passes[i] is the outcome of its i-th validator
RECURSIVE ChainErrors(_, _)
ChainErrors(path, passes) ==
  IF passes = <<>> THEN <<>>
  ELSE (IF Head(passes) THEN <<>> ELSE <<ValidationError(path)>>)
         \o ChainErrors(path, Tail(passes))

\* body(f).isString().notEmpty()
IsStringNotEmpty(v) == <<IsStr(v), ToStr(v) # <<>> >>

\* body('amount').isFloat({ gt: 0 })
IsFloatChain(v) == <<IsFloatGt0(ToStr(v))>>

\* faulty variant: the errors of the first failing chain only
DonateErrorsFirstChain(body) ==
  LET name == ChainErrors("donor_name", IsStringNotEmpty(body.donor_name))
      phone == ChainErrors("phone", IsStringNotEmpty(body.phone))
      amount == ChainErrors("amount", IsFloatChain(body.amount))
  IN  IF name # <<>> THEN name ELSE IF phone # <<>> THEN phone ELSE amount

\* validationResult(req).array() of POST /donate
DonateErrors(body) ==
  ChainErrors("donor_name", IsStringNotEmpty(body.donor_name))
    \o ChainErrors("phone", IsStringNotEmpty(body.phone))
    \o ChainErrors("amount", IsFloatChain(body.amount))

(***************************************************************************)
(* POST /api/webhook/mtn: transaction id selection and status              *)
(* normalisation.                                                          *)
(***************************************************************************)
UpperAlpha == <<"A", "B", "C", "D", "E", "F", "G", "H", "I", "J", "K", "L", "M",
                "N", "O", "P", "Q", "R", "S", "T", "U", "V", "W", "X", "Y", "Z">>

LowerAlpha == <<"a", "b", "c", "d", "e", "f", "g", "h", "i", "j", "k", "l", "m",
                "n", "o", "p", "q", "r", "s", "t", "u", "v", "w", "x", "y", "z">>

LowerChar(c) ==
  IF \E i \in 1..26 : UpperAlpha[i] = c
  THEN LowerAlpha[CHOOSE i \in 1..26 : UpperAlpha[i] = c]
  ELSE c

\* String.prototype.toLowerCase
ToLowerCase(s) == [i \in 1..Len(s) |-> LowerChar(s[i])]

\* String.prototype.includes
Includes(s, sub) ==
  \E i \in 1..(Len(s) - Len(sub) + 1) : SubSeq(s, i, i + Len(sub) - 1) = sub

SUCCESS == <<"s", "u", "c", "c", "e", "s", "s">>
COMPLETED == <<"c", "o", "m", "p", "l", "e", "t", "e", "d">>
PENDING == <<"p", "e", "n", "d", "i", "n", "g">>

\* faulty variant: the field names are tried in the opposite order
WebhookTransactionIdLast(payload) ==
  Or(Or(Or(payload.transactionRef, payload.reference), payload.externalId),
     payload.transactionId)

\* payload.transactionId || payload.externalId || payload.reference || payload.transactionRef
WebhookTransactionId(payload) ==
  Or(Or(Or(payload.transactionId, payload.externalId), payload.reference),
     payload.transactionRef)

\* (payload.status || payload.paymentStatus || '').toString().toLowerCase()
StatusRaw(payload) ==
  ToLowerCase(ToStr(Or(Or(payload.status, payload.paymentStatus), Str(<<>>))))

\* faulty variant: the pending test comes first
NormalizePendingFirst(statusRaw) ==
  IF Includes(statusRaw, PENDING) THEN "pending"
  ELSE IF Includes(statusRaw, SUCCESS) \/ Includes(statusRaw, COMPLETED) THEN "confirmed"
  ELSE "failed"

\* the if / else-if / else of the handler
NormalizeStatus(statusRaw) ==
  IF Includes(statusRaw, SUCCESS) \/ Includes(statusRaw, COMPLETED) THEN "confirmed"
  ELSE IF Includes(statusRaw, PENDING) THEN "pending"
  ELSE "failed"

(***************************************************************************)
(* Inputs.                                                                 *)
(***************************************************************************)
\* 'tx_' + Date.now() + <random base-36 suffix>
TransactionId(t, r) == <<"tx", t, r>>

TransactionIds == {TransactionId(t, r) : t \in 0..MaxTime, r \in 0..MaxRand}

\* an id no generator of the model produces
UnknownTransactionId == <<"tx", "unknown">>

ALICE == Str(<<"Alice">>)
PHONE == Str(<<"0781234567">>)

ValidDonateBody == [donor_name |-> ALICE, phone |-> PHONE, amount |-> Num(1000)]

\* request bodies of POST /api/donate: the valid body with one field replaced,
\* and bodies with two or three fields that break a rule
DonateBodiesAll ==
  {[ValidDonateBody EXCEPT !.donor_name = v] : v \in {Undef, Str(<<>>), Num(7)}}
    \cup {[ValidDonateBody EXCEPT !.phone = v] : v \in {Undef, Str(<<>>)}}
    \cup {[ValidDonateBody EXCEPT !.amount = v] :
            v \in {Undef, Num(0), Num(0 - 5), Num(1000), Str(<<"a", "b", "c">>),
                   Str(<<"1", "0", "0", "0">>)}}
    \cup [donor_name : {Undef, Str(<<>>)}, phone : {Str(<<>>)},
          amount : {Num(0), Num(1000)}]
    \cup {[donor_name |-> Str(<<>>), phone |-> PHONE, amount |-> Str(<<"a", "b", "c">>)],
          [donor_name |-> ALICE, phone |-> Str(<<>>), amount |-> Undef]}

\* the amount as a number and as a numeric string
ValidDonateBodies ==
  {ValidDonateBody, [ValidDonateBody EXCEPT !.amount = Str(<<"1", "0", "0", "0">>)]}

\* the bodies of the whole-system specification
DonateBodies ==
  [donor_name : {Str(<<>>), ALICE},
   phone : {PHONE},
   amount : {Num(0), Num(1000)}]

DonationsBodies ==
  [donor_name : {Undef, ALICE},
   phone : {PHONE},
   amount : {Num(0), Num(1000)}]

T_COMPLETED == Str(<<"C", "O", "M", "P", "L", "E", "T", "E", "D">>)
T_FAILED == Str(<<"F", "A", "I", "L", "E", "D">>)
T_pending == Str(<<"p", "e", "n", "d", "i", "n", "g">>)

\* status texts a provider may send
StatusTexts ==
  {Undef, Str(<<>>), T_COMPLETED, T_FAILED, T_pending,
   Str(<<"c", "o", "m", "p", "l", "e", "t", "e", "d">>),
   Str(<<"S", "u", "c", "c", "e", "s", "s", "f", "u", "l">>),
   Str(<<"P", "E", "N", "D", "I", "N", "G">>),
   Str(<<"p", "e", "n", "d", "i", "n", "g", "_", "s", "u", "c", "c", "e", "s", "s">>),
   Str(<<"r", "e", "j", "e", "c", "t", "e", "d">>)}

PaymentStatusTexts ==
  {Str(<<"S", "U", "C", "C", "E", "S", "S">>), T_pending,
   Str(<<"f", "a", "i", "l", "e", "d">>)}

NoIds ==
  [transactionId |-> Undef, externalId |-> Undef,
   reference |-> Undef, transactionRef |-> Undef]

NoStatus == [status |-> Undef, paymentStatus |-> Undef]

Payload(ids, st) ==
  [transactionId |-> ids.transactionId, externalId |-> ids.externalId,
   reference |-> ids.reference, transactionRef |-> ids.transactionRef,
   status |-> st.status, paymentStatus |-> st.paymentStatus]

\* values of one transaction id field of a webhook payload: the ids with
\* suffix 0 and an id no record has
IdValues ==
  {Str(TransactionId(t, 0)) : t \in 0..MaxTime} \cup {Str(UnknownTransactionId)}

WebhookPayloads ==
  {Payload(ids, st) :
     ids \in {NoIds} \cup {[NoIds EXCEPT !.transactionId = v] : v \in IdValues},
     st \in {NoStatus} \cup {[NoStatus EXCEPT !.status = s] :
                               s \in {T_COMPLETED, T_FAILED, T_pending}}}

\* the payloads of the webhook specification: every status text, under either
\* field name, for one id, and the id under each field name or under two of
\* them, for four status texts; the id of the second record comes only in
\* payloads that carry the id of the first under another field name
StatusFieldsAll ==
  {[NoStatus EXCEPT !.status = s] : s \in StatusTexts}
    \cup {[status |-> s, paymentStatus |-> q] :
            s \in {Undef, Str(<<>>), T_FAILED}, q \in PaymentStatusTexts}

IdFieldsAll ==
  LET A == Str(TransactionId(0, 0))
      B == Str(TransactionId(1, 0))
      U == Str(UnknownTransactionId)
  IN  {NoIds,
       [NoIds EXCEPT !.transactionId = Str(<<>>)],
       [NoIds EXCEPT !.transactionId = Str(<<>>), !.externalId = Str(<<>>),
                     !.reference = Str(<<>>), !.transactionRef = Str(<<>>)],
       [NoIds EXCEPT !.transactionId = A],
       [NoIds EXCEPT !.transactionId = U],
       [NoIds EXCEPT !.externalId = A],
       [NoIds EXCEPT !.reference = A],
       [NoIds EXCEPT !.transactionRef = A],
       [NoIds EXCEPT !.transactionId = Str(<<>>), !.reference = A],
       [NoIds EXCEPT !.transactionId = A, !.externalId = B],
       [NoIds EXCEPT !.externalId = B, !.transactionRef = A]}

WebhookPayloadsAll ==
  {Payload([NoIds EXCEPT !.transactionId = Str(TransactionId(0, 0))], st) :
     st \in StatusFieldsAll}
    \cup {Payload(ids, st) :
            ids \in IdFieldsAll,
            st \in {NoStatus} \cup {[NoStatus EXCEPT !.status = s] :
                                      s \in {T_COMPLETED, T_FAILED, T_pending}}}

\* body.status of the admin override
AdminStatuses == {"pending", "confirmed", "failed", "refunded"}

GOODJWT == <<"admin.jwt">>
BADJWT == <<"forged.jwt">>

\* requests of the admin override: every id and status with a valid token, and
\* one request for each way of lacking one
AdminRequests ==
  [cookie : {Str(GOODJWT)}, header : {Undef},
   id : 1..(MaxDonations + 1), status : AdminStatuses]
    \cup [cookie : {Undef}, header : {Undef}, id : {1}, status : {"failed"}]
    \cup [cookie : {Str(BADJWT)}, header : {Str(<<"Bearer ", "admin.jwt">>)},
          id : {1}, status : {"failed"}]
    \cup [cookie : {Undef, Str(GOODJWT)},
          header : {Str(<<"Bearer ", "admin.jwt">>), Str(<<"Bearer ", "forged.jwt">>)},
          id : {1}, status : {"failed"}]

(***************************************************************************)
(* State.                                                                  *)
(***************************************************************************)
VARIABLES
  donations,      \* rows of the donations table, in insertion order
  now,            \* Date.now()
  reqs,           \* bag of webhook deliveries whose UPDATE the store has not
                  \* executed yet
  timers,         \* pending setTimeout callbacks of createMtnPaymentRequest
  resp,           \* the response sent last
  lastWrite,      \* history: the UPDATE of the webhook delivery answered last,
                  \* if no other request was answered since, and whether the
                  \* delivery answered before it ran the same UPDATE (n = 2)
  firstTerminal,  \* history: per transaction id, the terminal status its pending
                  \* record got from a webhook UPDATE executed while a delivery
                  \* with another status for the same id was in flight
  events,         \* rows of the events table by id; a deleted row is NoEvent
  subscribers,    \* rows of the subscribers table, in insertion order
  outbox,         \* what the events request answered last has sent, in order:
                  \* its response and its sendMail calls
  asked,          \* history: req.body.email of the subscribe request, if the
                  \* events request answered last is one
  streak,         \* history: the confirmed updates of one event answered in a
                  \* row (n) and the sendMail calls they made per subscriber
  rejected,       \* history: the transaction ids whose payment request rejected
  upload,         \* the photo upload request being processed: the stage of each
                  \* file, the closure variables completed and newPhotos, and
                  \* the responses the handler has tried to send, in order
  admins,         \* rows of the admin table, in insertion order
  regs            \* registrations between their SELECT and their INSERT

vars ==
  <<donations, now, reqs, timers, resp, lastWrite, firstTerminal,
    events, subscribers, outbox, asked, streak, rejected, upload, admins, regs>>

NoResponse == [code |-> 0, body |-> [message |-> "none"]]

NoStreak == [id |-> 0, n |-> 0, calls |-> <<>>]

\* no upload request has arrived
NoUpload == [stage |-> <<>>, completed |-> 0, newPhotos |-> <<>>, responses |-> <<>>]

NoWrite == [transactionId |-> <<>>, status |-> "none", n |-> 0]

Terminal == {"confirmed", "failed"}

Init ==
  /\ donations = <<>>
  /\ now = 0
  /\ reqs = EmptyBag
  /\ timers = {}
  /\ resp = NoResponse
  /\ lastWrite = NoWrite
  /\ firstTerminal = [t \in TransactionIds |-> "none"]
  /\ events = <<>>
  /\ subscribers = <<>>
  /\ outbox = <<>>
  /\ asked = Undef
  /\ streak = NoStreak
  /\ rejected = {}
  /\ upload = NoUpload
  /\ admins = <<>>
  /\ regs = EmptyBag

(***************************************************************************)
(* The store.                                                              *)
(***************************************************************************)
Rows == 1..Len(donations)

\* transaction_id is UNIQUE: an INSERT of a present value is ER_DUP_ENTRY
DuplicateTransactionId(t) == \E i \in Rows : donations[i].transaction_id = t

\* the value a numeric column keeps of a number or numeric string
ColumnNumber(v) == IF v[1] = "number" THEN v[2] ELSE ParseFloat(v[2])

\* INSERT INTO donations (donor_name, phone, amount, transaction_id, status)
InsertDonation(donor_name, phone, amount, t, status) ==
  Append(donations,
         [id |-> Len(donations) + 1,
          donor_name |-> ToStr(donor_name),
          phone |-> ToStr(phone),
          amount |-> ColumnNumber(amount),
          transaction_id |-> t,
          status |-> status,
          created_at |-> now])

\* faulty variant: a delivery for a record that is no longer pending marks it failed
UpdateRejectSettled(status, t) ==
  [i \in Rows |->
     IF donations[i].transaction_id = t
     THEN [donations[i] EXCEPT
             !.status = IF donations[i].status = "pending" THEN status ELSE "failed"]
     ELSE donations[i]]

\* faulty variant: the WHERE clause is missing
UpdateEveryRow(status, t) ==
  [i \in Rows |-> [donations[i] EXCEPT !.status = status]]

\* UPDATE donations SET status = ? WHERE transaction_id = ?
UpdateByTransactionId(status, t) ==
  [i \in Rows |->
     IF donations[i].transaction_id = t
     THEN [donations[i] EXCEPT !.status = status]
     ELSE donations[i]]

\* faulty variant: the UPDATE also stamps the row with the current time
UpdateByIdStamping(status, id) ==
  [i \in Rows |->
     IF donations[i].id = id
     THEN [donations[i] EXCEPT !.status = status, !.created_at = now]
     ELSE donations[i]]

\* faulty variant: the UPDATE leaves a record that is confirmed or failed alone
UpdateByIdUnlessSettled(status, id) ==
  [i \in Rows |->
     IF donations[i].id = id /\ donations[i].status \notin {"confirmed", "failed"}
     THEN [donations[i] EXCEPT !.status = status]
     ELSE donations[i]]

\* UPDATE donations SET status = ? WHERE id = ?
UpdateById(status, id) ==
  [i \in Rows |->
     IF donations[i].id = id
     THEN [donations[i] EXCEPT !.status = status]
     ELSE donations[i]]

\* the table has room for the row, or the INSERT fails and adds none
CanInsert(t) == Len(donations) < MaxDonations \/ DuplicateTransactionId(t)

ServerError == [code |-> 500, body |-> [message |-> "Server error"]]

(***************************************************************************)
(* The clock.                                                              *)
(***************************************************************************)
Tick ==
  /\ now < MaxTime
  /\ now' = now + 1
  /\ UNCHANGED <<donations, reqs, timers, resp, lastWrite, firstTerminal,
                 events, subscribers, outbox, asked, streak, rejected, upload, admins, regs>>

(***************************************************************************)
(* utils/mtn.js: the payment gateway stub.                                 *)
(***************************************************************************)
\* the callback createMtnPaymentRequest hands to setTimeout
MtnTimer(args) ==
  [transactionId |-> args.transactionId, amount |-> args.amount, phone |-> args.phone]

\* the value createMtnPaymentRequest returns
MtnResponse(args) ==
  [success |-> TRUE,
   message |-> "MTN payment request simulated",
   transactionId |-> args.transactionId,
   redirectUrl |-> <<"mtn://pay", args.phone, args.amount, args.transactionId>>]

\* faulty variant: the request resolves only once the callback has run
CreateMtnPaymentRequestSettled(args) == timers' = timers

\* createMtnPaymentRequest: setTimeout(callback, 2000), then return at once
CreateMtnPaymentRequest(args) == timers' = timers \cup {MtnTimer(args)}

\* res.json({ message: 'Donation initiated', transactionId, mtnResp })
Initiated(args) ==
  [code |-> 200,
   body |-> [message |-> "Donation initiated",
             transactionId |-> args.transactionId,
             mtnResp |-> MtnResponse(args)]]

\* the body the timer callback passes to verifyMtnWebhook
MtnWebhookBody(timer, status) ==
  [transactionId |-> timer.transactionId, status |-> status,
   amount |-> timer.amount, phone |-> timer.phone]

\* verifyMtnWebhook(req): logs req.body and returns it; it runs no query
VerifyMtnWebhook(body) == UNCHANGED <<donations, reqs>>

\* the setTimeout callback: status is Math.random() > 0.2 ? 'completed' : 'failed'
TimerFire(timer, status) ==
  /\ timer \in timers
  /\ timers' = timers \ {timer}
  /\ VerifyMtnWebhook(MtnWebhookBody(timer, status))
  /\ UNCHANGED <<now, resp, lastWrite, firstTerminal,
                 events, subscribers, outbox, asked, streak, rejected, upload, admins, regs>>

(***************************************************************************)
(* POST /api/donate                                                        *)
(***************************************************************************)
\* faulty variant: the payment request is made before the INSERT is awaited
DonateFailedAfterRequest(args) ==
  /\ resp' = ServerError
  /\ CreateMtnPaymentRequest(args)
  /\ UNCHANGED donations

\* the INSERT rejects: the catch block answers and nothing after the await runs
DonateFailed(args) ==
  /\ resp' = ServerError
  /\ UNCHANGED <<donations, timers>>

\* faulty variant: the catch block marks the record it inserted as failed
GatewayFailedMarking(args) ==
  /\ donations' = InsertDonation(args.donor_name, args.phone, args.amount,
                                 args.transactionId, "failed")
  /\ resp' = ServerError
  /\ rejected' = rejected \cup {args.transactionId}
  /\ UNCHANGED timers

\* the INSERT succeeded and the awaited payment request rejects: the catch
\* block answers, the inserted record stays
GatewayFailed(args) ==
  /\ donations' = InsertDonation(args.donor_name, args.phone, args.amount,
                                 args.transactionId, "pending")
  /\ resp' = ServerError
  /\ rejected' = rejected \cup {args.transactionId}
  /\ UNCHANGED timers

\* r: the suffix Math.random() yields; ok: the store executes the INSERT;
\* mtn: the payment request resolves
DonateWith(body, r, ok, mtn) ==
  LET errors == DonateErrors(body)
      args == [donor_name |-> body.donor_name, phone |-> body.phone,
               amount |-> body.amount, transactionId |-> TransactionId(now, r)]
  IN  /\ IF errors # <<>>
         THEN /\ resp' = [code |-> 400, body |-> [errors |-> errors]]
              /\ UNCHANGED <<donations, timers, rejected>>
         ELSE /\ CanInsert(args.transactionId)
              /\ IF ~ok \/ DuplicateTransactionId(args.transactionId)
                 THEN /\ DonateFailed(args)
                      /\ UNCHANGED rejected
                 ELSE IF mtn
                 THEN /\ donations' = InsertDonation(args.donor_name, args.phone,
                                                     args.amount, args.transactionId,
                                                     "pending")
                      /\ CreateMtnPaymentRequest(args)
                      /\ resp' = Initiated(args)
                      /\ UNCHANGED rejected
                 ELSE GatewayFailed(args)
      /\ lastWrite' = NoWrite
      /\ UNCHANGED <<now, reqs, firstTerminal,
                     events, subscribers, outbox, asked, streak, upload, admins, regs>>

\* the handler with the stub of utils/mtn.js, whose request always resolves
Donate(body, r, ok) == DonateWith(body, r, ok, TRUE)

(***************************************************************************)
(* POST /api/webhook/mtn                                                   *)
(***************************************************************************)
\* faulty variant: if (transactionId === undefined)
MissingOnlyIfUndefined(transactionId) == transactionId = Undef

\* if (!transactionId) return res.status(400)...
MissingTransactionId(transactionId) == ~Truthy(transactionId)

WebhookMissingId ==
  /\ resp' = [code |-> 400, body |-> [message |-> "Missing transaction id"]]
  /\ lastWrite' = NoWrite
  /\ UNCHANGED <<donations, firstTerminal>>

\* the parameters of the UPDATE: [status, transactionId]
WebhookQuery(payload) ==
  [transactionId |-> ToStr(WebhookTransactionId(payload)),
   status |-> NormalizeStatus(StatusRaw(payload))]

\* deliveries in flight for the transaction id of q with another status
Rivals(q) ==
  {o \in BagToSet(reqs) : o.transactionId = q.transactionId /\ o.status # q.status}

\* history: q is the first of racing deliveries to take its record to a
\* terminal status
NoteTerminal(q) ==
  IF /\ q.transactionId \in TransactionIds
     /\ \E i \in Rows : /\ donations[i].transaction_id = q.transactionId
                         /\ donations[i].status = "pending"
     /\ q.status \in Terminal
     /\ Rivals(q) # {}
     /\ firstTerminal[q.transactionId] = "none"
  THEN [firstTerminal EXCEPT ![q.transactionId] = q.status]
  ELSE firstTerminal

\* history: q ran, once or twice in a row
Delivered(q) ==
  [transactionId |-> q.transactionId, status |-> q.status,
   n |-> IF /\ lastWrite.transactionId = q.transactionId
            /\ lastWrite.status = q.status
         THEN 2 ELSE 1]

\* the store executes the UPDATE (ok) or fails, and the handler responds
WebhookRun(q, ok) ==
  IF ok
  THEN /\ resp' = [code |-> 200, body |-> [message |-> "Webhook processed"]]
       /\ lastWrite' = Delivered(q)
       /\ firstTerminal' = NoteTerminal(q)
       /\ donations' = UpdateByTransactionId(q.status, q.transactionId)
  ELSE /\ resp' = ServerError
       /\ lastWrite' = NoWrite
       /\ UNCHANGED <<donations, firstTerminal>>

\* the handler from request to response, no other request in between
Webhook(payload, ok) ==
  /\ UNCHANGED <<now, reqs, timers, events, subscribers, outbox, asked, streak, rejected, upload, admins, regs>>
  /\ IF MissingTransactionId(WebhookTransactionId(payload))
     THEN WebhookMissingId
     ELSE WebhookRun(WebhookQuery(payload), ok)

\* the handler up to the await of the UPDATE
WebhookReceive(payload) ==
  IF MissingTransactionId(WebhookTransactionId(payload))
  THEN /\ WebhookMissingId
       /\ UNCHANGED <<now, reqs, timers, events, subscribers, outbox, asked, streak, rejected, upload, admins, regs>>
  ELSE /\ reqs' = reqs (+) SetToBag({WebhookQuery(payload)})
       /\ UNCHANGED <<donations, now, timers, resp, lastWrite, firstTerminal,
                      events, subscribers, outbox, asked, streak, rejected, upload, admins, regs>>

\* the handler from the await on, for a delivery in flight
WebhookUpdate(q, ok) ==
  /\ q \in BagToSet(reqs)
  /\ reqs' = reqs (-) SetToBag({q})
  /\ WebhookRun(q, ok)
  /\ UNCHANGED <<now, timers, events, subscribers, outbox, asked, streak, rejected, upload, admins, regs>>

(***************************************************************************)
(* middleware/auth.js and PUT /api/admin/donations/:id/status              *)
(***************************************************************************)
\* header.replace('Bearer ', '')
StripBearer(header) ==
  IF header = Undef THEN Undef
  ELSE Str(SelectSeq(header[2], LAMBDA c : c # "Bearer "))

\* faulty variant: the Authorization header is preferred to the cookie
RequestTokenHeaderFirst(cookie, header) == Or(StripBearer(header), cookie)

\* req.cookies?.token || req.header('Authorization')?.replace('Bearer ', '')
RequestToken(cookie, header) == Or(cookie, StripBearer(header))

\* jwt.verify(token, process.env.JWT_SECRET) does not throw
JwtVerifies(token) == ToStr(token) = GOODJWT

\* the response requireAdmin sends instead of calling next(); NoResponse: next()
RequireAdmin(cookie, header) ==
  LET token == RequestToken(cookie, header)
  IN  IF ~Truthy(token)
      THEN [code |-> 401, body |-> [message |-> "Unauthorized"]]
      ELSE IF ~JwtVerifies(token)
      THEN [code |-> 401, body |-> [message |-> "Invalid or expired token"]]
      ELSE NoResponse

\* history: the status the record of id had before the override answered last
Overriding(id) ==
  [NoWrite EXCEPT !.status = IF \E i \in Rows : donations[i].id = id
                             THEN donations[CHOOSE i \in Rows : donations[i].id = id].status
                             ELSE "none"]

AdminOverride(cookie, header, id, status, ok) ==
  LET denied == RequireAdmin(cookie, header)
  IN  /\ IF denied # NoResponse
         THEN /\ resp' = denied
              /\ lastWrite' = NoWrite
              /\ UNCHANGED donations
         ELSE IF ok
         THEN /\ donations' = UpdateById(status, id)
              /\ resp' = [code |-> 200, body |-> [message |-> "Status updated"]]
              /\ lastWrite' = Overriding(id)
         ELSE /\ resp' = ServerError
              /\ lastWrite' = NoWrite
              /\ UNCHANGED donations
      /\ UNCHANGED <<now, reqs, timers, firstTerminal,
                     events, subscribers, outbox, asked, streak, rejected, upload, admins, regs>>

(***************************************************************************)
(* POST /api/donations                                                     *)
(***************************************************************************)
DonationsPost(body, r, ok) ==
  LET transaction_id == TransactionId(now, r)
  IN  /\ IF ~Truthy(body.donor_name) \/ ~Truthy(body.phone) \/ ~Truthy(body.amount)
         THEN /\ resp' = [code |-> 400, body |-> [error |-> "Missing required fields"]]
              /\ UNCHANGED donations
         ELSE /\ CanInsert(transaction_id)
              /\ IF ok /\ ~DuplicateTransactionId(transaction_id)
                 THEN /\ donations' = InsertDonation(body.donor_name, body.phone,
                                                     body.amount, transaction_id, "pending")
                      /\ resp' = [code |-> 201,
                                  body |-> [transaction_id |-> transaction_id,
                                            status |-> "pending"]]
                 ELSE /\ resp' = [code |-> 500, body |-> [error |-> "Database error"]]
                      /\ UNCHANGED donations
      /\ lastWrite' = NoWrite
      /\ UNCHANGED <<now, reqs, timers, firstTerminal,
                     events, subscribers, outbox, asked, streak, rejected, upload, admins, regs>>

(***************************************************************************)
(* GET /api/donations, GET /api/donations/:id and GET /api/admin/donations *)
(***************************************************************************)
DatabaseError == [code |-> 500, body |-> [error |-> "Database error"]]

\* the rows a SELECT returns, as a set: the order of the result is not modelled
Selected(ids) == {donations[i] : i \in ids}

Reading == UNCHANGED <<donations, now, reqs, timers, firstTerminal,
                       events, subscribers, outbox, asked, streak, rejected, upload, admins, regs>>

\* donations router: SELECT * FROM donations ORDER BY created_at DESC
DonationsList(ok) ==
  /\ resp' = IF ok THEN [code |-> 200, body |-> [results |-> Selected(Rows)]]
             ELSE DatabaseError
  /\ lastWrite' = NoWrite
  /\ Reading

\* donations router: SELECT * FROM donations WHERE id = ?
DonationsGet(id, ok) ==
  LET results == {i \in Rows : donations[i].id = id}
  IN  /\ resp' = IF ~ok THEN DatabaseError
                 ELSE IF results = {}
                 THEN [code |-> 404, body |-> [error |-> "Donation not found"]]
                 ELSE [code |-> 200, body |-> [results |-> Selected(results)]]
      /\ lastWrite' = NoWrite
      /\ Reading

\* admin router: requireAdmin, SELECT * FROM donations ORDER BY created_at DESC
AdminDonationsList(cookie, header, ok) ==
  LET denied == RequireAdmin(cookie, header)
  IN  /\ resp' = IF denied # NoResponse THEN denied
                 ELSE IF ok THEN [code |-> 200, body |-> [donations |-> Selected(Rows)]]
                 ELSE ServerError
      /\ lastWrite' = NoWrite
      /\ Reading

(***************************************************************************)
(* server.js: the routers in the order they are mounted.  A path is the    *)
(* sequence of its segments; a request goes to the first route, in mount   *)
(* order and then in the router's order, whose method and pattern match.   *)
(* The other mounts of server.js have prefixes no request of the model     *)
(* has.                                                                    *)
(***************************************************************************)
Mounts ==
  <<[prefix |-> <<"api", "donations">>, router |-> "donationsRoutes"],
    [prefix |-> <<"api", "admin", "donations">>, router |-> "donationsRoutes"],
    [prefix |-> <<"api", "admin">>, router |-> "adminRoutes"],
    [prefix |-> <<"api">>, router |-> "publicRoutes"]>>

Route(method, pattern, handler) ==
  [method |-> method, pattern |-> pattern, handler |-> handler]

Routes(router) ==
  CASE router = "donationsRoutes" ->
         <<Route("POST", <<>>, "DonationsPost"),
           Route("GET", <<>>, "DonationsList"),
           Route("GET", <<":id">>, "DonationsGet")>>
    [] router = "adminRoutes" ->
         <<Route("GET", <<"donations">>, "AdminDonationsList"),
           Route("PUT", <<"donations", ":id", "status">>, "AdminOverride")>>
    [] router = "publicRoutes" ->
         <<Route("POST", <<"donate">>, "Donate"),
           Route("POST", <<"webhook", "mtn">>, "Webhook")>>

IsPrefix(prefix, path) ==
  /\ Len(prefix) <= Len(path)
  /\ SubSeq(path, 1, Len(prefix)) = prefix

\* the path a mounted router sees
Rest(prefix, path) == SubSeq(path, Len(prefix) + 1, Len(path))

MatchesPattern(pattern, segments) ==
  /\ Len(pattern) = Len(segments)
  /\ \A k \in 1..Len(pattern) : pattern[k] = ":id" \/ pattern[k] = segments[k]

Least(S) == CHOOSE x \in S : \A y \in S : x <= y

\* the handler of the router's first matching route, or "next"
RouterHandler(router, method, segments) ==
  LET routes == Routes(router)
      hits == {k \in 1..Len(routes) :
                 /\ routes[k].method = method
                 /\ MatchesPattern(routes[k].pattern, segments)}
  IN  IF hits = {} THEN "next" ELSE routes[Least(hits)].handler

\* the handler that answers the request, or "next" when no mount has one
Dispatch(method, path) ==
  LET hits == {m \in 1..Len(Mounts) :
                 /\ IsPrefix(Mounts[m].prefix, path)
                 /\ RouterHandler(Mounts[m].router, method,
                                  Rest(Mounts[m].prefix, path)) # "next"}
  IN  IF hits = {} THEN "next"
      ELSE RouterHandler(Mounts[Least(hits)].router, method,
                         Rest(Mounts[Least(hits)].prefix, path))

\* req.params.id as the number the id column is compared with
IdParam(segment) == DigitsVal(<<segment>>)

\* the segment of a path that names a record
IdSegment(id) == NatToStr(id)[1]

\* app.use((req, res, next) => res.status(404)...)
RouteNotFound ==
  /\ resp' = [code |-> 404, body |-> [message |-> "Route not found"]]
  /\ lastWrite' = NoWrite
  /\ Reading

\* one HTTP request from arrival to response
Request(req, ok) ==
  LET handler == Dispatch(req.method, req.path)
      last == req.path[Len(req.path)]
  IN  CASE handler = "DonationsPost" -> DonationsPost(req.body, 0, ok)
        [] handler = "DonationsList" -> DonationsList(ok)
        [] handler = "DonationsGet" -> DonationsGet(IdParam(last), ok)
        [] handler = "AdminDonationsList" ->
             AdminDonationsList(req.cookie, req.header, ok)
        [] handler = "AdminOverride" ->
             AdminOverride(req.cookie, req.header,
                           IdParam(req.path[Len(req.path) - 1]), req.body.status, ok)
        [] handler = "Donate" -> Donate(req.body, 0, ok)
        [] handler = "Webhook" -> Webhook(req.body, ok)
        [] handler = "next" -> RouteNotFound

(***************************************************************************)
(* Requests of the server specification.                                   *)
(***************************************************************************)
HttpRequest(method, path, cookie, header, body) ==
  [method |-> method, path |-> path, cookie |-> cookie, header |-> header,
   body |-> body]

\* express.json() of a request without a body
EmptyBody == [status |-> Undef]

BEARER == Str(<<"Bearer ", "admin.jwt">>)

\* a donations body with a negative amount
NegativeDonationsBody ==
  [donor_name |-> ALICE, phone |-> PHONE, amount |-> Num(0 - 5)]

ServerRequests ==
  {HttpRequest("POST", <<"api", "admin", "donations">>, Undef, Undef, ValidDonateBody),
   HttpRequest("POST", <<"api", "donations">>, Undef, Undef, NegativeDonationsBody),
   HttpRequest("POST", <<"api", "donations">>, Undef, Undef,
               [ValidDonateBody EXCEPT !.amount = Num(0)]),
   HttpRequest("GET", <<"api", "admin", "donations">>, Undef, Undef, EmptyBody),
   HttpRequest("GET", <<"api", "admin", "donations">>, Undef, BEARER, EmptyBody),
   HttpRequest("GET", <<"api", "admin", "donations", IdSegment(1)>>,
               Str(BADJWT), Undef, EmptyBody),
   HttpRequest("GET", <<"api", "donations", IdSegment(MaxDonations + 1)>>,
               Undef, Undef, EmptyBody),
   HttpRequest("PUT", <<"api", "admin", "donations", IdSegment(1), "status">>,
               Str(GOODJWT), Undef, [status |-> "confirmed"]),
   HttpRequest("PUT", <<"api", "admin", "donations", IdSegment(1), "status">>,
               Undef, Undef, [status |-> "failed"]),
   HttpRequest("POST", <<"api", "donate">>, Undef, Undef, ValidDonateBody),
   HttpRequest("POST", <<"api", "webhook", "mtn">>, Undef, Undef,
               Payload([NoIds EXCEPT !.transactionId = Str(TransactionId(0, 0))],
                       [NoStatus EXCEPT !.status = T_FAILED])),
   HttpRequest("DELETE", <<"api", "donations", IdSegment(1)>>, Undef, Undef, EmptyBody)}

(***************************************************************************)
(* routes/events.js: the routes that write subscribers and events.  The    *)
(* two GET routes read the events table and change nothing.                *)
(***************************************************************************)
WhiteSpace == {" ", "\t", "\n"}

\* /^\S+@\S+\.\S+$/.test(email)
EmailPattern(s) ==
  /\ \A i \in 1..Len(s) : s[i] \notin WhiteSpace
  /\ \E i, j \in 1..Len(s) :
       /\ 1 < i
       /\ s[i] = "@"
       /\ i + 1 < j
       /\ s[j] = "."
       /\ j < Len(s)

ANN == Str(<<"a", "@", "x", ".", "r", "w">>)
BOB == Str(<<"b", "@", "x", ".", "r", "w">>)

\* req.body.email of POST /api/events/subscribe
SubscribeEmails ==
  {ANN, BOB,
   Str(<<"A", "@", "x", ".", "r", "w">>),
   Undef,
   Str(<<"a", "@", "x">>),
   Str(<<"@", "x", ".", "r", "w">>),
   Str(<<"a", " ", "@", "x", ".", "r", "w">>)}

\* email VARCHAR(255) NOT NULL UNIQUE, CHARSET=utf8mb4: the unique index
\* compares under the case-insensitive default collation
SameEmail(a, b) == ToLowerCase(a) = ToLowerCase(b)

\* faulty variant: the email column has no unique index
DuplicateId(id, email) == \E i \in 1..Len(subscribers) : subscribers[i].id = id

\* ER_DUP_ENTRY: the id (PRIMARY KEY) or the email (UNIQUE) is in the table
DuplicateEntry(id, email) ==
  \E i \in 1..Len(subscribers) :
    subscribers[i].id = id \/ SameEmail(subscribers[i].email, email)

ValidEmailRequired == [code |-> 400, body |-> [error |-> "Valid email required"]]

AlreadySubscribed == [code |-> 409, body |-> [error |-> "Email already subscribed"]]

Subscribed == [code |-> 201, body |-> [message |-> "Subscribed successfully"]]

\* res.status(500).json({ error: err.message })
StoreError == [code |-> 500, body |-> [error |-> "err.message"]]

\* what the events handlers leave alone
EventsFrame ==
  /\ lastWrite' = NoWrite
  /\ UNCHANGED <<donations, now, reqs, timers, firstTerminal,
                 rejected, upload, admins, regs>>

\* a request that calls sendMail for nobody
NoMail ==
  /\ outbox' = <<>>
  /\ streak' = NoStreak

\* the events handlers other than the subscription
NotSubscribing ==
  /\ asked' = Undef
  /\ UNCHANGED subscribers
  /\ EventsFrame

\* POST /api/events/subscribe
Subscribe(email, ok) ==
  LET id == NatToStr(now)
  IN  /\ asked' = email
      /\ IF ~Truthy(email) \/ ~EmailPattern(ToStr(email))
         THEN /\ resp' = ValidEmailRequired
              /\ UNCHANGED subscribers
         ELSE IF ~ok
         THEN /\ resp' = StoreError
              /\ UNCHANGED subscribers
         ELSE IF DuplicateEntry(id, ToStr(email))
         THEN /\ resp' = AlreadySubscribed
              /\ UNCHANGED subscribers
         ELSE /\ subscribers' = Append(subscribers,
                                       [id |-> id, email |-> ToStr(email),
                                        created_at |-> now])
              /\ resp' = Subscribed
      /\ NoMail
      /\ UNCHANGED events
      /\ EventsFrame

\* a deleted row of the events table
NoEvent == [id |-> 0]

EventIds == {id \in 1..Len(events) : events[id] # NoEvent}

GIG == Str(<<"Gig">>)
DATE == Str(<<"2026-01-01">>)
VENUE == Str(<<"Kigali">>)
SCHEDULED == Str(<<"scheduled">>)
CONFIRMED == Str(<<"confirmed">>)

\* req.body of POST /api/events and PUT /api/events/:id
EventBodies ==
  [name : {GIG, Undef}, date : {DATE}, venue : {VENUE},
   status : {Undef, CONFIRMED, Str(<<"Confirmed">>)}]

\* requests of PUT /api/events/:id and the outcomes of their two queries
EventUpdates ==
  {u \in [id : 1..(MaxEvents + 1),
          body : {b \in EventBodies : b.name = GIG /\ b.status # Undef},
          ok : BOOLEAN, ok2 : BOOLEAN] :
     u.ok2 \/ (u.ok /\ u.body.status = CONFIRMED)}

EventNotFound == [code |-> 404, body |-> [error |-> "Event not found"]]

\* POST /api/events
EventsPost(body, ok) ==
  LET status == IF body.status = Undef THEN SCHEDULED ELSE body.status
      row == [id |-> Len(events) + 1, name |-> body.name, date |-> body.date,
              venue |-> body.venue, status |-> status]
  IN  /\ IF ~Truthy(body.name) \/ ~Truthy(body.date) \/ ~Truthy(body.venue)
         THEN /\ resp' = [code |-> 400,
                          body |-> [error |-> "Name, date, and venue are required"]]
              /\ UNCHANGED events
         ELSE /\ Len(events) < MaxEvents
              /\ IF ok
                 THEN /\ events' = Append(events, row)
                      /\ resp' = [code |-> 201,
                                  body |-> [row EXCEPT !.id = Num(row.id)]]
                 ELSE /\ resp' = StoreError
                      /\ UNCHANGED events
      /\ NoMail
      /\ NotSubscribing

\* DELETE /api/events/:id
EventsDelete(id, ok) ==
  /\ IF ~ok
     THEN /\ resp' = StoreError
          /\ UNCHANGED events
     ELSE IF id \notin EventIds
     THEN /\ resp' = EventNotFound
          /\ UNCHANGED events
     ELSE /\ events' = [events EXCEPT ![id] = NoEvent]
          /\ resp' = [code |-> 200, body |-> [message |-> "Event deleted successfully"]]
  /\ NoMail
  /\ NotSubscribing

\* res.json(...) and sendMail(...) as entries of outbox
Response == [kind |-> "response"]

Mail(to, delivered) == [kind |-> "mail", to |-> to, delivered |-> delivered]

\* faulty variant: the loop has no try/catch, the first rejected sendMail ends it
FanOutAborting(emails, failing) ==
  LET upto == IF \E k \in 1..Len(emails) : emails[k] \in failing
              THEN Least({k \in 1..Len(emails) : emails[k] \in failing})
              ELSE Len(emails)
  IN  [k \in 1..upto |-> Mail(emails[k], emails[k] \notin failing)]

\* faulty variant: the deliveries that were rejected are attempted once more
FanOutRetrying(emails, failing) ==
  LET once == [k \in 1..Len(emails) |-> Mail(emails[k], emails[k] \notin failing)]
  IN  once \o SelectSeq(once, LAMBDA m : ~m.delivered)

\* for (const sub of subs) { try { await sendMail(...) } catch (mailErr) { ... } }
\* failing: the recipients whose sendMail rejects
FanOut(emails, failing) ==
  [k \in 1..Len(emails) |-> Mail(emails[k], emails[k] \notin failing)]

\* the subscribed addresses
Recipients == {subscribers[i].email : i \in 1..Len(subscribers)}

\* faulty variant: the status is compared without regard to case
IsConfirmedAnyCase(status) == status \in {CONFIRMED, Str(<<"Confirmed">>)}

\* if (status === 'confirmed')
IsConfirmed(status) == status = CONFIRMED

\* the sets of recipients whose sendMail may reject, for a request that
\* reaches the loop
Failures(u) ==
  IF u.ok /\ u.ok2 /\ IsConfirmed(u.body.status) THEN SUBSET Recipients ELSE {{}}

\* SELECT email FROM subscribers
SubscriberEmails == [i \in 1..Len(subscribers) |-> subscribers[i].email]

\* res.json({ id: req.params.id, name, date, venue, status })
EventUpdated(id, body) ==
  [code |-> 200,
   body |-> [id |-> Str(NatToStr(id)), name |-> body.name, date |-> body.date,
             venue |-> body.venue, status |-> body.status]]

\* faulty variant: the loop is awaited before the response is sent
SentAfterFanOut(mails) == mails \o <<Response>>

\* res.json(...) at line 78, then the sendMail calls of the loop
Sent(mails) == <<Response>> \o mails

\* the number of sendMail calls of mails to each subscriber
CallsTo(mails) ==
  [i \in 1..Len(subscribers) |->
     Cardinality({k \in 1..Len(mails) : /\ mails[k].kind = "mail"
                                        /\ mails[k].to = subscribers[i].email})]

\* history: a confirmed update of event id was answered and made the calls of
\* mails
Confirming(id, mails) ==
  IF streak.id = id
  THEN [id |-> id, n |-> streak.n + 1,
        calls |-> [i \in 1..Len(subscribers) |-> streak.calls[i] + CallsTo(mails)[i]]]
  ELSE [id |-> id, n |-> 1, calls |-> CallsTo(mails)]

\* PUT /api/events/:id.  ok: the store executes the UPDATE; ok2: it executes
\* the SELECT of the subscribers
EventsPut(id, body, ok, ok2, failing) ==
  /\ IF ~ok
     THEN /\ resp' = StoreError
          /\ outbox' = Sent(<<>>)
          /\ streak' = NoStreak
          /\ UNCHANGED events
     ELSE IF id \notin EventIds
     THEN /\ resp' = EventNotFound
          /\ outbox' = Sent(<<>>)
          /\ streak' = NoStreak
          /\ UNCHANGED events
     ELSE LET mails == IF IsConfirmed(body.status) /\ ok2
                       THEN FanOut(SubscriberEmails, failing)
                       ELSE <<>>
          IN  /\ IsConfirmed(body.status) /\ streak.id = id => streak.n < MaxStreak
              /\ events' = [events EXCEPT ![id] =
                              [id |-> id, name |-> body.name, date |-> body.date,
                               venue |-> body.venue, status |-> body.status]]
              /\ resp' = EventUpdated(id, body)
              /\ outbox' = Sent(mails)
              /\ streak' = IF IsConfirmed(body.status)
                           THEN Confirming(id, mails)
                           ELSE NoStreak
  /\ NotSubscribing

(***************************************************************************)
(* The system.                                                             *)
(***************************************************************************)
Accepting(n) == BagCardinality(reqs) < n

\* Math.random() yields the suffix 0 in every specification but SpecFresh
Next ==
  \/ Tick
  \/ \E body \in DonateBodies, ok \in BOOLEAN : Donate(body, 0, ok)
  \/ \E timer \in timers, status \in {"completed", "failed"} : TimerFire(timer, status)
  \/ \E payload \in WebhookPayloads, ok \in BOOLEAN : Webhook(payload, ok)
  \/ \E a \in AdminRequests, ok \in BOOLEAN :
       AdminOverride(a.cookie, a.header, a.id, a.status, ok)
  \/ \E body \in DonationsBodies, ok \in BOOLEAN : DonationsPost(body, 0, ok)

Spec == Init /\ [][Next]_vars

(***************************************************************************)
(* Concurrent webhook deliveries: the deliveries are in flight between     *)
(* their arrival and the execution of their UPDATE, and the store executes *)
(* the statements in any order.                                            *)
(***************************************************************************)
NextRace ==
  \/ Tick
  \/ Donate(ValidDonateBody, 0, TRUE)
  \/ \E payload \in WebhookPayloads : Accepting(MaxInflight) /\ WebhookReceive(payload)
  \/ \E q \in BagToSet(reqs), ok \in BOOLEAN : WebhookUpdate(q, ok)

SpecRace == Init /\ [][NextRace]_vars

(***************************************************************************)
(* The webhook handler on every payload, against initiated donations.      *)
(***************************************************************************)
NextWebhook ==
  \/ Tick
  \/ Donate(ValidDonateBody, 0, TRUE)
  \/ \E payload \in WebhookPayloadsAll, ok \in BOOLEAN : Webhook(payload, ok)

SpecWebhook == Init /\ [][NextWebhook]_vars

(***************************************************************************)
(* The initiation handler on every request body, and the gateway stub.     *)
(***************************************************************************)
NextDonate ==
  \/ Tick
  \/ \E body \in DonateBodiesAll, ok \in BOOLEAN : Donate(body, 0, ok)
  \/ \E timer \in timers, status \in {"completed", "failed"} : TimerFire(timer, status)

SpecDonate == Init /\ [][NextDonate]_vars

(***************************************************************************)
(* Valid initiations with every suffix Math.random() may yield.            *)
(***************************************************************************)
NextFresh ==
  \/ Tick
  \/ \E body \in ValidDonateBodies, r \in 0..MaxRand, ok \in BOOLEAN :
       Donate(body, r, ok)
  \/ \E timer \in timers, status \in {"completed", "failed"} : TimerFire(timer, status)

SpecFresh == Init /\ [][NextFresh]_vars

(***************************************************************************)
(* The server: requests routed through the mounts of server.js.            *)
(***************************************************************************)
NextServer ==
  \/ Tick
  \/ \E req \in ServerRequests, ok \in BOOLEAN : Request(req, ok)
  \/ \E timer \in timers, status \in {"completed", "failed"} : TimerFire(timer, status)

SpecServer == Init /\ [][NextServer]_vars

(***************************************************************************)
(* The events router: subscriptions, events and the notification fan-out.  *)
(***************************************************************************)
NextEvents ==
  \/ Tick
  \/ \E email \in SubscribeEmails, ok \in BOOLEAN : Subscribe(email, ok)
  \/ \E body \in EventBodies, ok \in BOOLEAN : EventsPost(body, ok)
  \/ \E u \in EventUpdates : \E failing \in Failures(u) :
       EventsPut(u.id, u.body, u.ok, u.ok2, failing)
  \/ \E id \in 1..(MaxEvents + 1), ok \in BOOLEAN : EventsDelete(id, ok)

SpecEvents == Init /\ [][NextEvents]_vars

(***************************************************************************)
(* POST /api/photos: one request, the callbacks of its files in any order. *)
(***************************************************************************)
UploadFrame ==
  UNCHANGED <<donations, now, reqs, timers, resp, lastWrite, firstTerminal,
              events, subscribers, outbox, asked, streak, rejected, admins, regs>>

\* res.status(code).json(...) is called for the request
Responding(u, code) == [u EXCEPT !.responses = Append(@, code)]

\* the handler up to the end of req.files.forEach, for n files
UploadStart(n) ==
  /\ upload = NoUpload
  /\ upload' = IF n = 0
               THEN Responding(NoUpload, 400)
               ELSE [NoUpload EXCEPT !.stage = [f \in 1..n |-> "toFile"]]
  /\ UploadFrame

\* the callback of sharp(...).toFile for file f; ok: err is null
ToFile(f, ok) ==
  /\ f \in DOMAIN upload.stage
  /\ upload.stage[f] = "toFile"
  /\ upload' = IF ok
               THEN [upload EXCEPT !.stage[f] = "insert"]
               ELSE Responding([upload EXCEPT !.stage[f] = "failed"], 500)
  /\ UploadFrame

\* completed++; if (completed === totalFiles) res.status(201).json(newPhotos)
Finalize(u) ==
  LET v == [u EXCEPT !.completed = @ + 1]
  IN  IF v.completed = Len(v.stage) THEN Responding(v, 201) ELSE v

\* the callback of the INSERT INTO photos for file f; ok: err is null
InsertDone(f, ok) ==
  /\ f \in DOMAIN upload.stage
  /\ upload.stage[f] = "insert"
  /\ upload' = IF ok
               THEN Finalize([upload EXCEPT !.stage[f] = "done",
                                            !.newPhotos = Append(@, f)])
               ELSE Responding([upload EXCEPT !.stage[f] = "unlinked"], 500)
  /\ UploadFrame

NextUpload ==
  \/ \E n \in 0..MaxFiles : UploadStart(n)
  \/ \E f \in 1..MaxFiles, ok \in BOOLEAN : ToFile(f, ok)
  \/ \E f \in 1..MaxFiles, ok \in BOOLEAN : InsertDone(f, ok)

SpecUpload == Init /\ [][NextUpload]_vars

(***************************************************************************)
(* POST /api/admin/register: the handler awaits its SELECT, the hash and   *)
(* its INSERT, and other registrations run in between.                     *)
(***************************************************************************)
RegisterFrame ==
  UNCHANGED <<donations, now, reqs, timers, lastWrite, firstTerminal,
              events, subscribers, outbox, asked, streak, rejected, upload>>

SECRET == Str(<<"s", "e", "c", "r", "e", "t">>)

\* req.body of POST /api/admin/register
RegisterBodies ==
  [username : {Str(<<"ann">>), Str(<<"bob">>)}, email : {ANN, BOB}, password : {SECRET}]
    \cup {[username |-> Str(<<>>), email |-> ANN, password |-> SECRET],
          [username |-> Str(<<"ann">>), email |-> Undef, password |-> SECRET],
          [username |-> Str(<<"ann">>), email |-> ANN, password |-> Str(<<"s", "e", "c">>)]}

\* validationResult(req).array() of POST /register; isEmail on the addresses
\* of RegisterBodies
RegisterErrors(body) ==
  ChainErrors("username", IsStringNotEmpty(body.username))
    \o ChainErrors("email", <<IsStr(body.email) /\ EmailPattern(ToStr(body.email))>>)
    \o ChainErrors("password", <<IsStr(body.password), Len(ToStr(body.password)) >= 6>>)

\* SELECT id FROM admin WHERE email = ? OR username = ? returns a row
AdminTaken(username, email) ==
  \E i \in 1..Len(admins) :
    \/ ToLowerCase(admins[i].email) = ToLowerCase(email)
    \/ ToLowerCase(admins[i].username) = ToLowerCase(username)

AdminExists == [code |-> 400, body |-> [message |-> "Admin already exists"]]

AdminCreated == [code |-> 200, body |-> [message |-> "Admin created successfully"]]

\* the handler up to the await of bcrypt.hash; ok: the store executes the SELECT
RegisterCheck(body, ok) ==
  /\ IF RegisterErrors(body) # <<>>
     THEN /\ resp' = [code |-> 400, body |-> [errors |-> RegisterErrors(body)]]
          /\ UNCHANGED regs
     ELSE IF ~ok
     THEN /\ resp' = ServerError
          /\ UNCHANGED regs
     ELSE IF AdminTaken(ToStr(body.username), ToStr(body.email))
     THEN /\ resp' = AdminExists
          /\ UNCHANGED regs
     ELSE /\ BagCardinality(regs) < MaxRegistering
          /\ regs' = regs (+) SetToBag({[username |-> ToStr(body.username),
                                         email |-> ToStr(body.email)]})
          /\ UNCHANGED resp
  /\ UNCHANGED admins
  /\ RegisterFrame

\* the handler from the INSERT on, for a registration q past its SELECT.  ok:
\* the store executes the INSERT; unique: the admin table, whose definition is
\* not part of the sources, has unique indexes on username and email, and the
\* INSERT of a taken one fails
RegisterInsert(q, ok, unique) ==
  /\ q \in BagToSet(regs)
  /\ regs' = regs (-) SetToBag({q})
  /\ IF ~ok \/ (unique /\ AdminTaken(q.username, q.email))
     THEN /\ resp' = ServerError
          /\ UNCHANGED admins
     ELSE /\ Len(admins) < MaxAdmins
          /\ admins' = Append(admins, q)
          /\ resp' = AdminCreated
  /\ RegisterFrame

NextRegister ==
  \/ \E body \in RegisterBodies, ok \in BOOLEAN : RegisterCheck(body, ok)
  \/ \E q \in BagToSet(regs), ok \in BOOLEAN, unique \in BOOLEAN :
       RegisterInsert(q, ok, unique)

SpecRegister == Init /\ [][NextRegister]_vars

(***************************************************************************)
(* The admin override on every request, against donations that the stub    *)
(* settles through the webhook handler.                                    *)
(***************************************************************************)
NextAdmin ==
  \/ Tick
  \/ Donate(ValidDonateBody, 0, TRUE)
  \/ \E timer \in timers, status \in {"completed", "failed"} : TimerFire(timer, status)
  \/ \E a \in AdminRequests, ok \in BOOLEAN :
       AdminOverride(a.cookie, a.header, a.id, a.status, ok)

SpecAdmin == Init /\ [][NextAdmin]_vars

(***************************************************************************)
(* Initiation against a gateway whose payment request may reject, with the *)
(* webhook, the admin override and the timers of the requests that did not.*)
(***************************************************************************)
NextGateway ==
  \/ Tick
  \/ \E ok, mtn \in BOOLEAN : DonateWith(ValidDonateBody, 0, ok, mtn)
  \/ \E timer \in timers, status \in {"completed", "failed"} : TimerFire(timer, status)
  \/ \E payload \in WebhookPayloads, ok \in BOOLEAN : Webhook(payload, ok)
  \/ \E a \in AdminRequests, ok \in BOOLEAN :
       AdminOverride(a.cookie, a.header, a.id, a.status, ok)

SpecGateway == Init /\ [][NextGateway]_vars

(***************************************************************************)
(* Properties.                                                             *)
(***************************************************************************)
Processed == [code |-> 200, body |-> [message |-> "Webhook processed"]]

MissingId == [code |-> 400, body |-> [message |-> "Missing transaction id"]]

StatusesUnchanged ==
  /\ Len(donations') = Len(donations)
  /\ \A i \in Rows : donations'[i].status = donations[i].status

\* C1: once a record is confirmed or failed, no delivery to the webhook
\* handler changes its status, whatever status text the delivery carries.
C1_Monotonic ==
  [][\A i \in Rows :
       (/\ donations[i].status \in Terminal
        /\ \E payload \in WebhookPayloads, ok \in BOOLEAN : Webhook(payload, ok))
         => donations'[i].status = donations[i].status]_vars

\* C2: when the webhook handler processes a delivery right after it processed
\* a delivery of the same payload (the same transaction id and status), the
\* second delivery leaves every record's status as the first left it.
C2_Idempotent == [][lastWrite'.n = 2 => StatusesUnchanged]_vars

\* C2, witness: a delivery was processed twice in a row and its record has the
\* status of the delivery.
C2_Witness ==
  /\ lastWrite.n = 2
  /\ \E i \in Rows : /\ donations[i].transaction_id = lastWrite.transactionId
                     /\ donations[i].status = lastWrite.status
                     /\ donations[i].status = "failed"

\* the status text of a payload: status, else paymentStatus
ChosenText(payload) ==
  IF payload.status \in {Undef, Str(<<>>)} THEN payload.paymentStatus ELSE payload.status

\* the texts of the model that contain "success" or "completed" in some case
ConfirmingTexts ==
  {T_COMPLETED,
   Str(<<"c", "o", "m", "p", "l", "e", "t", "e", "d">>),
   Str(<<"S", "u", "c", "c", "e", "s", "s", "f", "u", "l">>),
   Str(<<"p", "e", "n", "d", "i", "n", "g", "_", "s", "u", "c", "c", "e", "s", "s">>),
   Str(<<"S", "U", "C", "C", "E", "S", "S">>)}

\* the texts of the model that contain "pending" in some case
PendingTexts ==
  {T_pending,
   Str(<<"P", "E", "N", "D", "I", "N", "G">>),
   Str(<<"p", "e", "n", "d", "i", "n", "g", "_", "s", "u", "c", "c", "e", "s", "s">>)}

ClaimedStatus(payload) ==
  IF ChosenText(payload) \in ConfirmingTexts THEN "confirmed"
  ELSE IF ChosenText(payload) \in PendingTexts THEN "pending"
  ELSE "failed"

\* C3: a processed delivery whose transaction id is that of a pending record
\* leaves the record confirmed if its status text (status, else paymentStatus)
\* contains "success" or "completed" in any case, else pending if it contains
\* "pending", else failed.
C3_Normalization ==
  [][\A payload \in WebhookPayloadsAll :
       (resp' = Processed /\ Webhook(payload, TRUE))
         => \A i \in Rows :
              (/\ donations[i].transaction_id = WebhookQuery(payload).transactionId
               /\ donations[i].status = "pending")
                => donations'[i].status = ClaimedStatus(payload)]_vars

\* C3, witness: a delivery with a confirming text was processed for a record,
\* which is confirmed.
C3_Witness ==
  /\ resp = Processed
  /\ lastWrite.n = 1
  /\ lastWrite.status = "confirmed"
  /\ \E i \in Rows : /\ donations[i].transaction_id = lastWrite.transactionId
                     /\ donations[i].status = "confirmed"

\* no accepted field of the payload carries an identifier
NoIdentifier(payload) ==
  \A f \in {"transactionId", "externalId", "reference", "transactionRef"} :
    payload[f] \in {Undef, Str(<<>>)}

\* C4: a delivery without a transaction identifier is answered 400 "Missing
\* transaction id" and changes no donation record.
C4_MissingId ==
  [][\A payload \in WebhookPayloadsAll :
       (NoIdentifier(payload) /\ \E ok \in BOOLEAN : Webhook(payload, ok))
         => resp' = MissingId /\ donations' = donations]_vars

\* C4, witness: a delivery was answered 400 while a confirmed record exists.
C4_Witness ==
  /\ resp = MissingId
  /\ \E i \in Rows : donations[i].status = "confirmed"

\* the amounts of the model that are floats greater than zero
PositiveAmounts == {Num(1000), Str(<<"1", "0", "0", "0">>)}

\* the fields of a body that violate an input rule
ViolatedFields(body) ==
  {f \in {"donor_name", "phone"} : body[f][1] # "string" \/ body[f] = Str(<<>>)}
    \cup (IF body.amount \in PositiveAmounts THEN {} ELSE {"amount"})

ErrorPaths(errors) == {errors[k].path : k \in 1..Len(errors)}

\* C5: a valid initiation, the store being available, adds exactly one record,
\* which is pending and whose transactionId no earlier record has.
C5_CreatesFreshPending ==
  [][\A body \in DonateBodiesAll :
       (/\ ViolatedFields(body) = {}
        /\ \E r \in 0..MaxRand : Donate(body, r, TRUE))
         => /\ Len(donations') = Len(donations) + 1
            /\ SubSeq(donations', 1, Len(donations)) = donations
            /\ donations'[Len(donations')].status = "pending"
            /\ \A i \in Rows :
                 donations[i].transaction_id
                   # donations'[Len(donations')].transaction_id]_vars

\* C6: an initiation that violates an input rule is answered 400 with errors
\* naming exactly the violated fields, creates no record and starts no gateway
\* request.
C6_ValidationStops ==
  [][\A body \in DonateBodiesAll :
       (/\ ViolatedFields(body) # {}
        /\ \E r \in 0..MaxRand, ok \in BOOLEAN : Donate(body, r, ok))
         => /\ resp'.code = 400
            /\ ErrorPaths(resp'.body.errors) = ViolatedFields(body)
            /\ donations' = donations
            /\ timers' = timers]_vars

\* C6, witness: a request violating all three rules was answered while a
\* record existed.
C6_Witness ==
  /\ resp.code = 400
  /\ DOMAIN resp.body = {"errors"}
  /\ ErrorPaths(resp.body.errors) = {"donor_name", "phone", "amount"}
  /\ Len(donations) > 0

\* the status the webhook handler gives a record for a stub resolution
Settled(status) == IF status = "completed" THEN "confirmed" ELSE "failed"

\* C7: when the stub's timer resolves a donation, the webhook handler is
\* invoked for it: the record gets the status of the resolution, or a delivery
\* carrying it is in flight.
C7_TimerSettles ==
  [][\A timer \in timers, status \in {"completed", "failed"} :
       TimerFire(timer, status)
         => \A i \in Rows :
              donations[i].transaction_id = timer.transactionId
                => \/ donations'[i].status = Settled(status)
                   \/ \E q \in BagToSet(reqs') :
                        /\ q.transactionId = timer.transactionId
                        /\ q.status = Settled(status)]_vars

\* C8: of racing deliveries for one transaction id, once none of them is in
\* flight any more the record has the status the first of them to settle it
\* gave it.
C8_OrderIndependent ==
  \A i \in Rows :
    (/\ firstTerminal[donations[i].transaction_id] # "none"
     /\ \A q \in BagToSet(reqs) : q.transactionId # donations[i].transaction_id)
      => donations[i].status = firstTerminal[donations[i].transaction_id]

StatusUpdated == [code |-> 200, body |-> [message |-> "Status updated"]]

\* a webhook delivery naming the transactionId of row i was processed
WebhookStepFor(i) ==
  /\ resp' = Processed
  /\ \E payload \in WebhookPayloads :
       /\ ~NoIdentifier(payload)
       /\ WebhookTransactionId(payload) = Str(donations[i].transaction_id)
       /\ Webhook(payload, TRUE)

\* an admin override naming the id of row i was executed
AdminStepFor(i) ==
  /\ resp' = StatusUpdated
  /\ \E a \in AdminRequests :
       /\ a.id = donations[i].id
       /\ AdminOverride(a.cookie, a.header, a.id, a.status, TRUE)

\* C9, as claimed: the status of an existing record changes only in a step of
\* the webhook handler for its transactionId.
C9_OnlyWebhook ==
  [][\A i \in Rows :
       donations'[i].status # donations[i].status => WebhookStepFor(i)]_vars

\* C9, amended: the status of an existing record changes only in a step of
\* the webhook handler for its transactionId or of the admin status override
\* for its id.
C9_OnlyWebhookOrAdmin ==
  [][\A i \in Rows :
       donations'[i].status # donations[i].status
         => WebhookStepFor(i) \/ AdminStepFor(i)]_vars

\* C9, witness: an admin override has just given a record a status that only
\* it can write, while another record is confirmed.
C9_Witness ==
  /\ resp = StatusUpdated
  /\ \E i, j \in Rows : /\ donations[i].status = "refunded"
                        /\ donations[j].status = "confirmed"

\* C10: every record's status is pending, confirmed or failed.
C10_StatusEnum ==
  \A i \in Rows : donations[i].status \in {"pending", "confirmed", "failed"}

\* the request is for the admin donation endpoints and carries no valid token
UnauthenticatedAdminDonations(req) ==
  /\ req.method \in {"GET", "POST"}
  /\ \/ req.path = <<"api", "admin", "donations">>
     \/ /\ req.method = "GET"
        /\ Len(req.path) = 4
        /\ SubSeq(req.path, 1, 3) = <<"api", "admin", "donations">>
  /\ req.cookie # Str(GOODJWT)
  /\ ~(req.cookie = Undef /\ req.header = BEARER)

\* C11: a GET or POST to /api/admin/donations, or a GET of
\* /api/admin/donations/:id, without a valid admin token is answered 401 and
\* neither creates nor returns a donation record (the store being available).
C11_AdminDonationsAuthenticated ==
  [][\A req \in ServerRequests :
       (UnauthenticatedAdminDonations(req) /\ Request(req, TRUE))
         => resp'.code = 401 /\ donations' = donations]_vars

\* a step of POST /api/donate that persists a record
Initiating(body) ==
  /\ Donate(body, 0, TRUE)
  /\ Len(donations') = Len(donations) + 1

\* C12: a successful initiation is answered with HTTP 201 and a body of
\* message, transactionId and mtnResp, and the transactionId it returns is
\* the transaction id of the record it persisted.
C12_InitiationResponse ==
  [][\A body \in DonateBodiesAll :
       Initiating(body)
         => /\ resp'.code = 201
            /\ DOMAIN resp'.body = {"message", "transactionId", "mtnResp"}
            /\ resp'.body.transactionId = donations'[Len(donations')].transaction_id]_vars

IdFieldNames == <<"transactionId", "externalId", "reference", "transactionRef">>

NonEmptyId(v) == v # Undef /\ v # Str(<<>>)

\* the value under the first of the four field names that holds a non-empty one
FirstNonEmptyId(payload) ==
  LET k == Least({n \in 1..4 : NonEmptyId(payload[IdFieldNames[n]])})
  IN  payload[IdFieldNames[k]]

\* C13: the webhook identifies the donation by the first non-empty of
\* transactionId, externalId, reference and transactionRef, in that order: the
\* record whose transaction id is that value takes the notified status and
\* every other record is unchanged, also when the fields hold different ids.
C13_FirstNonEmptyIdentifier ==
  [][\A payload \in WebhookPayloadsAll :
       (resp' = Processed /\ ~NoIdentifier(payload) /\ Webhook(payload, TRUE))
         => /\ Len(donations') = Len(donations)
            /\ \A i \in Rows :
                 donations'[i] =
                   IF Str(donations[i].transaction_id) = FirstNonEmptyId(payload)
                   THEN [donations[i] EXCEPT
                           !.status = NormalizeStatus(StatusRaw(payload))]
                   ELSE donations[i]]_vars

\* a payload naming the first record under transactionRef and the second
\* under externalId has confirmed the second record and left the first pending
C13_Witness ==
  /\ resp = Processed
  /\ lastWrite.transactionId = TransactionId(1, 0)
  /\ \E i, j \in Rows :
       /\ donations[i].transaction_id = TransactionId(0, 0)
       /\ donations[i].status = "pending"
       /\ donations[j].transaction_id = TransactionId(1, 0)
       /\ donations[j].status = "confirmed"

\* the setTimeout callbacks not yet run for transaction id t
PendingTimers(t) == {timer \in timers : timer.transactionId = t}

\* C14: initiation does not wait for the settlement: when the response is
\* sent the stub has acknowledged the request (its return value is in the
\* response body), the delayed resolution of that request has not run yet, and
\* the record is pending.
C14_RespondsBeforeSettlement ==
  [][\A body \in DonateBodiesAll :
       Initiating(body)
         => LET d == donations'[Len(donations')]
            IN  /\ resp'.body.mtnResp.success
                /\ resp'.body.mtnResp.transactionId = d.transaction_id
                /\ \E timer \in timers' : timer.transactionId = d.transaction_id
                /\ d.status = "pending"]_vars

\* C14, witness: the response of an initiation has been sent, its record is
\* pending and the timer of its delayed resolution has not fired.
C14_Witness ==
  /\ resp.code = 200
  /\ "mtnResp" \in DOMAIN resp.body
  /\ PendingTimers(resp.body.transactionId) # {}
  /\ \E i \in Rows : /\ donations[i].transaction_id = resp.body.transactionId
                     /\ donations[i].status = "pending"

\* C15: every persisted donation record has an amount greater than zero,
\* whichever of POST /api/donate and POST /api/donations created it.
C15_AmountPositive == \A i \in Rows : donations[i].amount > 0

\* the recipients of the sendMail calls in a log of sent items
Attempted(sent) == {sent[k].to : k \in {n \in 1..Len(sent) : sent[n].kind = "mail"}}

UniqueEmails ==
  \A i, j \in 1..Len(subscribers) :
    subscribers[i].email = subscribers[j].email => i = j

\* C17: no two subscriber records share an email; a subscribe request for an
\* email that is already subscribed is answered 409 and adds no record; and
\* no step updates or deletes a subscriber record: the table only grows.
C17_SubscribersUnique ==
  [][/\ UniqueEmails'
     /\ Len(subscribers) <= Len(subscribers')
     /\ subscribers = SubSeq(subscribers', 1, Len(subscribers))
     /\ \A email \in SubscribeEmails :
          (/\ ToStr(email) \in Recipients
           /\ Subscribe(email, TRUE))
            => resp' = AlreadySubscribed /\ subscribers' = subscribers]_vars

\* C17, witness: a subscribe request for an email of the table was answered 409
\* at a later clock value than the record's.
C17_Witness ==
  /\ resp = AlreadySubscribed
  /\ \E i \in 1..Len(subscribers) :
       /\ subscribers[i].email = ToStr(asked)
       /\ subscribers[i].created_at < now
  /\ UniqueEmails

\* the donation ids and transaction ids of the table
DonationIds == {donations[i].id : i \in Rows}

StoredTransactionIds == {donations[i].transaction_id : i \in Rows}

\* C18: a webhook delivery whose transaction id no record has, and an admin
\* override of an id no record has, are answered 404 and change no record.
C18_UnknownDonationIs404 ==
  [][/\ \A payload \in WebhookPayloads :
          (/\ ~NoIdentifier(payload)
           /\ WebhookQuery(payload).transactionId \notin StoredTransactionIds
           /\ Webhook(payload, TRUE))
            => resp'.code = 404 /\ donations' = donations
     /\ \A a \in AdminRequests :
          (/\ a.id \notin DonationIds
           /\ RequireAdmin(a.cookie, a.header) = NoResponse
           /\ AdminOverride(a.cookie, a.header, a.id, a.status, TRUE))
            => resp'.code = 404 /\ donations' = donations]_vars

\* the rows a step changes
ChangedRows == {i \in Rows : donations'[i] # donations[i]}

\* C19: no step deletes a donation record or changes a record's id, donor
\* name, phone, amount, transaction id or creation time; a step changes at
\* most the status of a single record, the one its webhook delivery or admin
\* override matches, and leaves every other record as it was.
C19_RecordsKept ==
  [][/\ Len(donations) <= Len(donations')
     /\ \A i \in Rows :
          donations'[i] = [donations[i] EXCEPT !.status = donations'[i].status]
     /\ Cardinality(ChangedRows) <= 1
     /\ \A i \in ChangedRows : WebhookStepFor(i) \/ AdminStepFor(i)]_vars

\* C19, witness: an update has just changed the status of a record created at
\* an earlier clock value, and another record is still pending.
C19_Witness ==
  /\ resp \in {Processed, StatusUpdated}
  /\ \E i, j \in Rows :
       /\ donations[i].status # "pending"
       /\ donations[i].created_at < now
       /\ donations[j].status = "pending"

\* C20: when the INSERT of the pending record fails during initiation, the
\* store being unavailable or the transaction id being taken, the request is
\* answered 500, no record is added and the payment stub is not invoked.
C20_PersistFailure ==
  [][\A body \in DonateBodiesAll, ok \in BOOLEAN :
       (/\ DonateErrors(body) = <<>>
        /\ ~ok \/ TransactionId(now, 0) \in StoredTransactionIds
        /\ Donate(body, 0, ok))
         => /\ resp'.code = 500
            /\ donations' = donations
            /\ timers' = timers]_vars

\* C20, witness: an initiation was answered 500 and there is neither a record
\* nor a pending timer.
C20_Witness ==
  /\ resp = ServerError
  /\ donations = <<>>
  /\ timers = {}

\* C21: when the payment request fails after the pending record was
\* persisted, the request is answered 500 and the record stays, pending; no
\* step removes a record, and a record whose payment request failed changes
\* only in a webhook delivery or an admin override that names it.
C21_OrphanStaysPending ==
  [][/\ (/\ TransactionId(now, 0) \notin StoredTransactionIds
         /\ DonateWith(ValidDonateBody, 0, TRUE, FALSE))
          => /\ resp'.code = 500
             /\ Len(donations') = Len(donations) + 1
             /\ donations'[Len(donations')].transaction_id = TransactionId(now, 0)
             /\ donations'[Len(donations')].status = "pending"
     /\ Len(donations) <= Len(donations')
     /\ \A i \in Rows :
          (donations[i].transaction_id \in rejected /\ donations'[i] # donations[i])
            => WebhookStepFor(i) \/ AdminStepFor(i)]_vars

\* C21, witness: a record whose payment request failed is still pending at a
\* later clock value, after the last request was answered 500.
C21_Witness ==
  /\ resp = ServerError
  /\ \E i \in Rows : /\ donations[i].transaction_id \in rejected
                     /\ donations[i].status = "pending"
                     /\ donations[i].created_at < now


\* the entries of an outbox that are sendMail calls
Mails(box) == {k \in 1..Len(box) : box[k].kind = "mail"}

\* C22: for an update that sets the status to confirmed, the response is sent
\* before the first sendMail call, and it is the same response whether the
\* query of the subscribers and the deliveries succeed or fail.
C22_ResponseBeforeFanOut ==
  [][\A u \in EventUpdates, failing \in SUBSET Recipients :
       (/\ u.body.status = CONFIRMED
        /\ u.ok
        /\ u.id \in EventIds
        /\ EventsPut(u.id, u.body, u.ok, u.ok2, failing))
         => /\ outbox'[1] = Response
            /\ Mails(outbox') = 2..Len(outbox')
            /\ resp' = EventUpdated(u.id, u.body)
            /\ resp'.code = 200]_vars

\* C22, witness: a confirmed update was answered 200 with the updated event
\* although the table has subscribers and the query for them failed.
C22_Witness ==
  /\ resp.code = 200
  /\ streak.n > 0
  /\ subscribers # <<>>
  /\ outbox = <<Response>>

C27_NotifiesOnlyOnConfirmed ==
  [][(Mails(outbox') # {} /\ ~Tick) =>
       \E u \in EventUpdates : \E failing \in Failures(u) :
         /\ EventsPut(u.id, u.body, u.ok, u.ok2, failing)
         /\ u.ok
         /\ u.id \in EventIds
         /\ u.body.status = CONFIRMED
         /\ events'[u.id].status = CONFIRMED
         /\ resp'.code = 200]_vars

\* C27, witness: an update that set the status to 'Confirmed' was answered 200
\* and called sendMail for none of the subscribers.
C27_Witness ==
  /\ resp.code = 200
  /\ \E id \in EventIds : events[id].status = Str(<<"Confirmed">>)
  /\ subscribers # <<>>
  /\ outbox = <<Response>>


\* C26: a subscribe request with a well-formed email that no record has, under
\* any letter case, creates the record and is answered 201, also when another
\* email was subscribed at the same clock value; 409 is answered only for an
\* email of the table.
C26_NewEmailSubscribes ==
  [][\A email \in SubscribeEmails :
       (/\ Truthy(email)
        /\ EmailPattern(ToStr(email))
        /\ \A i \in 1..Len(subscribers) :
             ~SameEmail(subscribers[i].email, ToStr(email))
        /\ Subscribe(email, TRUE))
         => /\ resp' = Subscribed
            /\ Len(subscribers') = Len(subscribers) + 1
            /\ subscribers'[Len(subscribers')].email = ToStr(email)]_vars


\* C24: an admin override with a valid token and a status among pending,
\* confirmed and failed gives the record of its id that status whatever status
\* the record has, a confirmed or failed record going back to pending included,
\* changes no other record and is answered with success.
C24_OverrideSetsStatus ==
  [][\A a \in AdminRequests :
       (/\ a.status \in {"pending", "confirmed", "failed"}
        /\ a.cookie = Str(GOODJWT)
        /\ AdminOverride(a.cookie, a.header, a.id, a.status, TRUE))
         => /\ resp' = StatusUpdated
            /\ Len(donations') = Len(donations)
            /\ \A i \in Rows :
                 IF donations[i].id = a.id
                 THEN donations'[i] = [donations[i] EXCEPT !.status = a.status]
                 ELSE donations'[i] = donations[i]]_vars

\* C24, witness: an override of a record that was confirmed or failed was
\* answered with success and the record is pending.
C24_Witness ==
  /\ resp = StatusUpdated
  /\ lastWrite.n = 0
  /\ lastWrite.status \in Terminal
  /\ Len(donations) = 1
  /\ donations[1].status = "pending"

\* the token requireAdmin is to verify: the cookie when the request has one,
\* else the bearer token of the Authorization header
Presented(a) == IF a.cookie # Undef THEN a.cookie ELSE StripBearer(a.header)

\* C25: the handler behind requireAdmin runs only for a request whose token
\* verifies, the token being the cookie when the request has one and the
\* bearer token of the Authorization header otherwise; a request with no token
\* or with a token that does not verify is answered 401 and changes nothing.
C25_RequireAdminGuards ==
  [][\A a \in AdminRequests, ok \in BOOLEAN :
       AdminOverride(a.cookie, a.header, a.id, a.status, ok)
         => IF Presented(a) # Undef /\ ToStr(Presented(a)) = GOODJWT
            THEN /\ resp'.code # 401
                 /\ ok => donations' = UpdateById(a.status, a.id)
            ELSE /\ resp'.code = 401
                 /\ donations' = donations]_vars

\* C25, witness: a request whose token does not verify was answered 401 while
\* the table has a record.
C25_Witness ==
  /\ resp = [code |-> 401, body |-> [message |-> "Invalid or expired token"]]
  /\ donations # <<>>


\* every callback of the upload has run
UploadSettled ==
  /\ upload.stage # <<>>
  /\ \A f \in DOMAIN upload.stage : upload.stage[f] \notin {"toFile", "insert"}

\* C28: an upload is answered exactly once under every order of the callbacks
\* of its files: a response is attempted at most once, also when two or more
\* files fail; once every callback has run there is a response; and 201 is
\* answered only after every file was stored and inserted, with one entry per
\* file.
C28_OneResponse ==
  /\ Len(upload.responses) <= 1
  /\ UploadSettled => Len(upload.responses) = 1
  /\ \A k \in DOMAIN upload.responses :
       upload.responses[k] = 201
         => /\ \A f \in DOMAIN upload.stage : upload.stage[f] = "done"
            /\ Len(upload.newPhotos) = Len(upload.stage)


\* no two admin records share a username or an email
UniqueAdmins(rows) ==
  \A i, j \in 1..Len(rows) :
    (rows[i].username = rows[j].username \/ rows[i].email = rows[j].email) => i = j

\* C29: no two admin records share a username or an email, and a registration
\* whose username or email is taken when its INSERT runs, a concurrent
\* registration having created the record, is answered 400 'Admin already
\* exists' and adds no record.
C29_AdminsUnique ==
  [][/\ UniqueAdmins(admins')
     /\ \A q \in BagToSet(regs), unique \in BOOLEAN :
          (/\ AdminTaken(q.username, q.email)
           /\ RegisterInsert(q, TRUE, unique))
            => resp' = AdminExists /\ admins' = admins]_vars

====
